---------------------------- MODULE Spec2Model ----------------------------
(***************************************************************************)
(* Candidate directory API (node-express): the federated login resolver    *)
(* over the two tenant stores (sewing, upholstery) and the candidate        *)
(* listing with its per-record geocoding fan-out.                           *)
(*                                                                         *)
(* The repository holds several versions ("lineages") of src/app.js.  A    *)
(* behaviour of the model runs one of them, chosen in the initial state:   *)
(*   "auth"      src/src/app.js 1-495     login through Supabase Auth,     *)
(*                                         public listings for both tenants *)
(*   "dual"      src/src/app.js 497-864   listings for both tenants        *)
(*   "jwt"       src/src/app.js 1004-1521 login against unified_auth with  *)
(*                                         self-issued JWTs                 *)
(*   "complete"  src/unnamed/part_001     the "COMPLETE VERSION"           *)
(*   "geo"       src/unnamed/part_000 39-269  single tenant with geocoding *)
(*                                                                         *)
(* Strings the code transforms (emails, postcodes) are sequences of        *)
(* one-character strings; JavaScript values that may be null or undefined  *)
(* are records [t, v] (see JNull, JUndef, JStr).                           *)
(***************************************************************************)
EXTENDS Integers, Sequences, FiniteSets, TLC

VARIABLES
    lineage,    \* which version of app.js the process runs
    phase,      \* "idle" | "fanout" (a listing awaits its lookups) | "responded"
    db,         \* unified_auth rows of each tenant store
    req,        \* the request being served (its route and body)
    ops,        \* the external calls of the current request, in the order
                \* they were answered
    resp,       \* the response sent for the current request
    tasks,      \* listing fan-out: one task per record of the store's result
    results,    \* listing fan-out: the slots Promise.all collects
    now,        \* the server's clock, in days
    wallet,     \* the token the client keeps from its last successful login
    guard,      \* what the token middleware did with the current request
    inflight,   \* password changes between two awaits: one record per request
    profiles    \* candidates_private / upholstery_private rows of each store

vars == <<lineage, phase, db, req, ops, resp, tasks, results, now, wallet, guard, inflight,
          profiles>>

-----------------------------------------------------------------------------
(* JavaScript values *)

JNull == [t |-> "null", v |-> <<>>]

JUndef == [t |-> "undefined", v |-> <<>>]

JStr(s) == [t |-> "string", v |-> s]

\* A native array of strings.
JList(l) == [t |-> "list", v |-> l]

\* JavaScript truthiness: null, undefined and "" are falsy; every array and
\* object, the empty array included, is truthy.
Truthy(x) == x.t \in {"list", "object"} \/ (x.t = "string" /\ x.v # <<>>)

LowerLetters == <<"a", "b", "e", "m", "t", "x">>

UpperLetters == <<"A", "B", "E", "M", "T", "X">>

ToLowerChar(c) ==
    IF \E i \in DOMAIN UpperLetters : UpperLetters[i] = c
    THEN LowerLetters[CHOOSE i \in DOMAIN UpperLetters : UpperLetters[i] = c]
    ELSE c

ToUpperChar(c) ==
    IF \E i \in DOMAIN LowerLetters : LowerLetters[i] = c
    THEN UpperLetters[CHOOSE i \in DOMAIN LowerLetters : LowerLetters[i] = c]
    ELSE c

\* String.prototype.toLowerCase
ToLowerCase(s) == [i \in DOMAIN s |-> ToLowerChar(s[i])]

\* String.prototype.toUpperCase
ToUpperCase(s) == [i \in DOMAIN s |-> ToUpperChar(s[i])]

-----------------------------------------------------------------------------
(* Tenant stores and credentials *)

Tenants == {"sewing", "upholstery"}

\* unified_auth.account_type: the kind of account the row describes.
AccountTypes == {"sewing", "upholstery", "both"}

StoredEmail == <<"a", "@", "x">>

\* Emails a client may send: the stored one, a letter-case variant, none.
RequestEmails == {StoredEmail, ToUpperCase(StoredEmail), <<>>}

Passwords == {"pw1", "pw2"}

\* Passwords a client may send; "" is a missing field.
RequestPasswords == Passwords \cup {""}

\* bcryptjs.hash: one-way; the model keeps only which password was hashed.
BcryptHash(plain) == <<"bcrypt", plain>>

\* bcryptjs.compare(plain, hash)
BcryptCompare(plain, hash) == hash = BcryptHash(plain)

\* last_login values: the row's old timestamp, or the time of a login.
OldTime == "t0"

NowTime == "now"

AuthRow(active, pw, atype) ==
    [ id |-> "row1", unified_id |-> "u1", email |-> StoredEmail,
      password_hash |-> BcryptHash(pw), is_active |-> active,
      account_type |-> atype, last_login |-> OldTime, login_attempts |-> 3,
      sewing_candidate_id |-> "SC1", upholstery_candidate_id |-> "UC1" ]

AuthRows == { AuthRow(a, p, k) : a \in BOOLEAN, p \in Passwords, k \in AccountTypes }

\* A store holds at most one row per email (email is the unique key).
StoreContents == {{}} \cup { {r} : r \in AuthRows }

\* How a call to a store can end: data/error returned, or the call throws.
CallOutcomes == {"ok", "error", "throw"}

\* Variant of SelectActiveByEmail: the is_active filter is forgotten.
SelectByEmailAnyStatus(rows, e) ==
    LET hit == { r \in rows : r.email = e }
    IN  IF Cardinality(hit) = 1 THEN [error |-> FALSE, data |-> hit]
        ELSE [error |-> TRUE, data |-> {}]

\* from('unified_auth').select('*').eq('email', e).eq('is_active', true).single()
\* .single() reports an error unless exactly one row matches.
SelectActiveByEmail(rows, e) ==
    LET hit == { r \in rows : r.email = e /\ r.is_active }
    IN  IF Cardinality(hit) = 1 THEN [error |-> FALSE, data |-> hit]
        ELSE [error |-> TRUE, data |-> {}]

NoToken == <<>>

NoUser == <<>>

NoResp == [status |-> 0, error |-> "", token |-> NoToken, user |-> NoUser, body |-> <<>>]

ErrorResp(status, msg) == [NoResp EXCEPT !.status = status, !.error = msg]

NoReq == [route |-> "none", email |-> <<>>, password |-> "", tenant |-> "none", body |-> <<>>]

Call(t, op, outcome) == [store |-> t, op |-> op, result |-> outcome]

\* The middleware has not run: no header read, no identity attached
\* (req.user), next() not called.
NoGuard == [header |-> <<>>, user |-> <<>>, next |-> FALSE]

NoProfiles == [t \in Tenants |-> {}]


-----------------------------------------------------------------------------
(* Login: the three versions of POST /api/login *)

\* Outcomes the environment gives the store calls of one login request.
LoginOutcomes == [Tenants -> [select : CallOutcomes, update : CallOutcomes]]

\* Variant of LoginBodyComplete: only the email is checked.
LoginBodyHasEmail(email, password) == email # <<>>

\* The request body check: both fields must be present (truthy).
LoginBodyComplete(email, password) == email # <<>> /\ password # ""

\* Variant of TouchLastLogin: the update carries no filter.
TouchLastLoginEveryRow(rows, email) == { [r EXCEPT !.last_login = NowTime] : r \in rows }

\* update({ last_login: new Date().toISOString() }).eq('email', email)
TouchLastLogin(rows, email) ==
    { IF r.email = email THEN [r EXCEPT !.last_login = NowTime] ELSE r : r \in rows }

\* update({ last_login: ..., login_attempts: 0 }).eq('id', user.id)
TouchLastLoginById(rows, id) ==
    { IF r.id = id THEN [r EXCEPT !.last_login = NowTime, !.login_attempts = 0]
      ELSE r : r \in rows }

\* Variant of LoginFailure: the attempt is stamped on the rows first.
LoginFailureStamped(rows, calls) ==
    [ success |-> FALSE, rows |-> { [r EXCEPT !.last_login = NowTime] : r \in rows },
      calls |-> calls, email |-> <<>>,
      candidateId |-> "", unifiedId |-> "", accountType |-> "" ]

LoginFailure(rows, calls) ==
    [ success |-> FALSE, rows |-> rows, calls |-> calls, email |-> <<>>,
      candidateId |-> "", unifiedId |-> "", accountType |-> "" ]

\* The tenant tag loginToDatabase reports: the row's account_type column.
ReportedAccountType(data, dbType) == data.account_type

\* loginToDatabase(email, password, supabase, dbType): any failure, a thrown
\* call included, is { success: false }.
LoginToDatabase(rows, email, password, dbType, out) ==
    LET sel     == SelectActiveByEmail(rows, email)
        selCall == Call(dbType, "select", out.select)
        updCall == Call(dbType, "update", out.update)
    IN  IF out.select # "ok" \/ sel.error
        THEN LoginFailure(rows, <<selCall>>)
        ELSE LET data == CHOOSE r \in sel.data : TRUE
             IN  IF ~BcryptCompare(password, data.password_hash)
                 THEN LoginFailure(rows, <<selCall>>)
                 ELSE IF out.update = "throw"
                 THEN LoginFailure(rows, <<selCall, updCall>>)
                 ELSE [ success |-> TRUE,
                        rows |-> IF out.update = "ok"
                                 THEN TouchLastLogin(rows, email) ELSE rows,
                        calls |-> <<selCall, updCall>>,
                        email |-> data.email,
                        candidateId |-> IF dbType = "sewing"
                                        THEN data.sewing_candidate_id
                                        ELSE data.upholstery_candidate_id,
                        unifiedId |-> data.unified_id,
                        accountType |-> ReportedAccountType(data, dbType) ]

\* expiresIn: '7d', in days
ExpiresIn == 7

\* jwt.sign(payload, JWT_SECRET, { expiresIn: '7d' }): `issuer` is the key the
\* token is signed with, `exp` the first day the token is no longer valid.
JwtSign(id, email, accountType, unifiedId) ==
    [ scheme |-> "jwt", issuer |-> "app", id |-> id, email |-> email,
      accountType |-> accountType, unifiedId |-> unifiedId, exp |-> now + ExpiresIn ]

UserSummary(id, email, accountType, unifiedId) ==
    [ id |-> id, email |-> email, accountType |-> accountType, unifiedId |-> unifiedId ]

\* The "jwt" lineage's handler: [resp, db, ops] for one request.
LoginHandlerJwt(d, email, password, out) ==
    IF ~LoginBodyComplete(email, password)
    THEN [resp |-> ErrorResp(400, "Email and password required"), db |-> d, ops |-> <<>>]
    ELSE LET first  == LoginToDatabase(d["sewing"], email, password, "sewing", out["sewing"])
             second == LoginToDatabase(d["upholstery"], email, password, "upholstery",
                                       out["upholstery"])
             loginResult == IF first.success THEN first ELSE second
             calls  == IF first.success THEN first.calls ELSE first.calls \o second.calls
             d2     == IF first.success
                       THEN [d EXCEPT !["sewing"] = first.rows]
                       ELSE [d EXCEPT !["sewing"] = first.rows, !["upholstery"] = second.rows]
         IN  IF ~loginResult.success
             THEN [resp |-> ErrorResp(401, "Invalid email or password"), db |-> d2, ops |-> calls]
             ELSE [ resp |-> [ NoResp EXCEPT
                        !.status = 200,
                        !.token = << JwtSign(loginResult.candidateId, loginResult.email,
                                             loginResult.accountType, loginResult.unifiedId) >>,
                        !.user = << UserSummary(loginResult.candidateId, loginResult.email,
                                                loginResult.accountType, loginResult.unifiedId) >> ],
                    db |-> d2, ops |-> calls ]

\* The "complete" lineage falls through to the upholstery store only when
\* the sewing lookup gave no row.
TryUpholstery(sewingSel, sewingOutcome) == sewingOutcome # "ok" \/ sewingSel.error

\* The "complete" lineage's handler (one inline handler, one try/catch).
LoginHandlerComplete(d, email, password, out) ==
    IF ~LoginBodyComplete(email, password)
    THEN [resp |-> ErrorResp(400, "Email and password are required"), db |-> d, ops |-> <<>>]
    ELSE
    LET key   == ToLowerCase(email)
        sSel  == SelectActiveByEmail(d["sewing"], key)
        uSel  == SelectActiveByEmail(d["upholstery"], key)
        sCall == Call("sewing", "select", out["sewing"].select)
        uCall == Call("upholstery", "select", out["upholstery"].select)
        fall  == TryUpholstery(sSel, out["sewing"].select)
        lookups == IF fall THEN <<sCall, uCall>> ELSE <<sCall>>
        internal(calls) == [resp |-> ErrorResp(500, "Internal server error"),
                            db |-> d, ops |-> calls]
        invalid(calls)  == [resp |-> ErrorResp(401, "Invalid email or password"),
                            db |-> d, ops |-> calls]
    IN  IF out["sewing"].select = "throw" THEN internal(<<sCall>>)
        ELSE IF fall /\ out["upholstery"].select = "throw" THEN internal(lookups)
        ELSE IF fall /\ (out["upholstery"].select # "ok" \/ uSel.error) THEN invalid(lookups)
        ELSE
        LET accountType == IF fall THEN "upholstery" ELSE "sewing"
            user    == CHOOSE r \in (IF fall THEN uSel.data ELSE sSel.data) : TRUE
            updCall == Call(accountType, "update", out[accountType].update)
            calls   == Append(lookups, updCall)
        IN  IF ~BcryptCompare(password, user.password_hash) THEN invalid(lookups)
            ELSE IF out[accountType].update = "throw" THEN internal(calls)
            ELSE [ resp |-> [ NoResp EXCEPT
                        !.status = 200,
                        !.token = << JwtSign("", user.email, accountType, user.unified_id) >>,
                        !.user = << UserSummary("", user.email, accountType, user.unified_id) >> ],
                   db |-> IF out[accountType].update = "ok"
                          THEN [d EXCEPT ![accountType] = TouchLastLoginById(@, user.id)]
                          ELSE d,
                   ops |-> calls ]

\* loginToSupabase(email, password, supabase, dbType): the identity provider
\* of the project decides; "ok" is a sign-in that returned a user.
LoginToSupabase(email, dbType, outcome) ==
    [ success |-> outcome = "ok", calls |-> << Call(dbType, "signin", outcome) >>,
      email |-> email, accountType |-> dbType ]

\* session.expires_in, in days: the provider's sessions are short-lived.
SessionExpiresIn == 1

\* The session token the project's identity provider issued.
ProviderToken(project, email) ==
    [ scheme |-> "supabase", issuer |-> project, id |-> "authuser", email |-> email,
      accountType |-> "", unifiedId |-> "", exp |-> now + SessionExpiresIn ]

\* The "auth" lineage's handler.
LoginHandlerAuth(d, email, password, out) ==
    IF ~LoginBodyComplete(email, password)
    THEN [resp |-> ErrorResp(400, "Email and password required"), db |-> d, ops |-> <<>>]
    ELSE LET first  == LoginToSupabase(email, "sewing", out["sewing"].select)
             second == LoginToSupabase(email, "upholstery", out["upholstery"].select)
             loginResult == IF first.success THEN first ELSE second
             calls  == IF first.success THEN first.calls ELSE first.calls \o second.calls
         IN  IF ~loginResult.success
             THEN [resp |-> ErrorResp(401, "Invalid email or password"), db |-> d, ops |-> calls]
             ELSE [ resp |-> [ NoResp EXCEPT
                        !.status = 200,
                        !.token = << ProviderToken(loginResult.accountType, loginResult.email) >>,
                        !.user = << UserSummary("authuser", loginResult.email,
                                                loginResult.accountType, "") >> ],
                    db |-> d, ops |-> calls ]

LoginRequest(email, password) ==
    [route |-> "login", email |-> email, password |-> password, tenant |-> "none", body |-> <<>>]

Serve(request, h) ==
    /\ req' = request
    /\ resp' = h.resp
    /\ db' = h.db
    /\ ops' = h.ops
    /\ phase' = "responded"
    /\ wallet' = IF h.resp.token # NoToken THEN h.resp.token ELSE wallet
    /\ UNCHANGED <<lineage, inflight, tasks, results, now, guard, profiles>>

\* POST /api/login, src/src/app.js 1105-1154
LoginJwt ==
    /\ phase = "idle" /\ lineage = "jwt"
    /\ \E email \in RequestEmails, password \in RequestPasswords, out \in LoginOutcomes :
          Serve(LoginRequest(email, password), LoginHandlerJwt(db, email, password, out))

\* POST /api/login, src/unnamed/part_001 62-147
LoginComplete ==
    /\ phase = "idle" /\ lineage = "complete"
    /\ \E email \in RequestEmails, password \in RequestPasswords, out \in LoginOutcomes :
          Serve(LoginRequest(email, password), LoginHandlerComplete(db, email, password, out))

\* POST /api/login, src/src/app.js 123-162
LoginAuth ==
    /\ phase = "idle" /\ lineage = "auth"
    /\ \E email \in RequestEmails, password \in RequestPasswords, out \in LoginOutcomes :
          Serve(LoginRequest(email, password), LoginHandlerAuth(db, email, password, out))

\* The response has been written; the server takes the next request.
Close ==
    /\ phase = "responded"
    /\ phase' = "idle"
    /\ req' = NoReq /\ resp' = NoResp /\ ops' = <<>>
    /\ tasks' = <<>> /\ results' = <<>>
    /\ guard' = NoGuard
    /\ UNCHANGED <<lineage, inflight, db, now, wallet, profiles>>

EmptyDb == [t \in Tenants |-> {}]

Init ==
    /\ lineage \in {"auth", "jwt", "complete"}
    /\ phase = "idle"
    /\ db \in [Tenants -> StoreContents]
    /\ (lineage = "auth" => db = EmptyDb)
    /\ req = NoReq /\ resp = NoResp /\ ops = <<>>
    /\ tasks = <<>> /\ results = <<>>
    /\ now = 0 /\ wallet = NoToken /\ guard = NoGuard /\ profiles = NoProfiles
    /\ inflight = <<>>

Next == LoginJwt \/ LoginComplete \/ LoginAuth \/ Close

Spec == Init /\ [][Next]_vars

\* A second account of a store, under another email.
OtherRow ==
    [ AuthRow(TRUE, "pw2", "both") EXCEPT
        !.id = "row2", !.unified_id = "u2", !.email = <<"b", "@", "x">> ]

\* The stores hold the account the requests name, active, and may hold
\* beside it the account of another email.
LedgerInit ==
    /\ lineage \in {"jwt", "complete"}
    /\ phase = "idle"
    /\ db \in [Tenants -> SUBSET {AuthRow(TRUE, "pw1", "both"), OtherRow}]
    /\ req = NoReq /\ resp = NoResp /\ ops = <<>>
    /\ tasks = <<>> /\ results = <<>>
    /\ now = 0 /\ wallet = NoToken /\ guard = NoGuard /\ profiles = NoProfiles
    /\ inflight = <<>>

LedgerNext == LoginJwt \/ LoginComplete \/ Close

LedgerSpec == LedgerInit /\ [][LedgerNext]_vars


-----------------------------------------------------------------------------
(* Token middleware and GET /api/profile *)

\* Latest day of the clock.
MaxClock == 8

\* A bearer string that is not a token at all.
MalformedToken ==
    [ scheme |-> "garbage", issuer |-> "none", id |-> "", email |-> <<>>,
      accountType |-> "", unifiedId |-> "", exp |-> 0 ]

\* The claims of tok under a signature made with a key that is not the
\* server's.
Forge(tok) == [tok EXCEPT !.issuer = "attacker"]

\* A genuine token of the scheme the lineage does not use: a provider
\* session for the self-issuing lineages, a self-issued JWT for "auth".
ForeignToken(lin) ==
    IF lin = "auth" THEN JwtSign("SC1", StoredEmail, "sewing", "u1")
    ELSE ProviderToken("sewing", StoredEmail)

\* The tokens a client can put in a request.
PresentedTokens ==
    (IF wallet = NoToken THEN {} ELSE {wallet[1], Forge(wallet[1])})
        \cup {MalformedToken, ForeignToken(lineage)}

\* The Authorization header split at ' ': absent, the scheme word alone, or
\* 'Bearer <token>'.
Headers == {<<>>, <<"Bearer">>} \cup { <<"Bearer", t>> : t \in PresentedTokens }

\* authHeader && authHeader.split(' ')[1]
BearerToken(header) == IF Len(header) >= 2 THEN <<header[2]>> ELSE <<>>

\* req.user: the identity the middleware attaches.
Identity(id, email, accountType, unifiedId) ==
    [ id |-> id, email |-> email, accountType |-> accountType, unifiedId |-> unifiedId ]

\* Variant of JwtVerify: the expiry is not looked at (ignoreExpiration).
JwtVerifyIgnoreExpiration(token) == token.scheme = "jwt" /\ token.issuer = "app"

\* Variant of JwtVerify: the token is decoded, its signature is not checked.
JwtDecodeOnly(token) == token.scheme \in {"jwt", "supabase"} /\ now < token.exp

\* jwt.verify(token, JWT_SECRET, cb) gives no error: a JWT signed with the
\* server's secret whose exp has not been reached.
JwtVerify(token) == token.scheme = "jwt" /\ token.issuer = "app" /\ now < token.exp

Rejected(response, calls) == [resp |-> response, user |-> <<>>, next |-> FALSE, calls |-> calls]

Admitted(user, calls) == [resp |-> NoResp, user |-> <<user>>, next |-> TRUE, calls |-> calls]

\* The JWT middleware of the self-issuing lineages; they differ in the
\* message of the 401.
JwtMiddleware(header, missing) ==
    LET token == BearerToken(header)
    IN  IF token = <<>> THEN Rejected(ErrorResp(401, missing), <<>>)
        ELSE IF ~JwtVerify(token[1])
        THEN Rejected(ErrorResp(403, "Invalid or expired token"), <<>>)
        ELSE Admitted(Identity(token[1].id, token[1].email, token[1].accountType,
                               token[1].unifiedId), <<>>)

\* verifyToken, src/src/app.js 1073-1092
VerifyToken(header) == JwtMiddleware(header, "No token provided")

\* authenticateToken, src/unnamed/part_001 33-48
AuthenticateToken(header) == JwtMiddleware(header, "Access token required")

\* How a call to a project's identity provider can end; "empty" is an
\* answer with neither a user nor an error.
GetUserOutcomes == {"ok", "error", "empty", "throw"}

\* supabase.auth.getUser(token) at one project: the provider knows only the
\* sessions it issued itself and that have not run out.
GetUser(project, token, outcome) ==
    IF outcome = "ok" /\ token.scheme = "supabase" /\ token.issuer = project
                      /\ now < token.exp
    THEN [user |-> <<Identity(token.id, token.email, "", "")>>, error |-> FALSE]
    ELSE [user |-> <<>>, error |-> outcome # "empty"]

\* verifySupabaseToken, src/src/app.js 67-109
VerifySupabaseToken(header, out) ==
    LET token == BearerToken(header)
        sCall == Call("sewing", "getUser", out["sewing"])
        uCall == Call("upholstery", "getUser", out["upholstery"])
        failed(calls) == Rejected(ErrorResp(500, "Token verification error"), calls)
        invalid(calls) == Rejected(ErrorResp(403, "Invalid or expired token"), calls)
    IN  IF token = <<>> THEN Rejected(ErrorResp(401, "No token provided"), <<>>)
        ELSE IF out["sewing"] = "throw" THEN failed(<<sCall>>)
        ELSE LET sewingUser == GetUser("sewing", token[1], out["sewing"])
             IN  IF sewingUser.user # <<>> THEN Admitted(sewingUser.user[1], <<sCall>>)
                 ELSE IF sewingUser.error THEN invalid(<<sCall>>)
                 ELSE IF out["upholstery"] = "throw" THEN failed(<<sCall, uCall>>)
                 ELSE LET upholsteryUser == GetUser("upholstery", token[1], out["upholstery"])
                      IN  IF upholsteryUser.user # <<>>
                          THEN Admitted(upholsteryUser.user[1], <<sCall, uCall>>)
                          ELSE invalid(<<sCall, uCall>>)

\* Variant of RouteVerifier: the "auth" routes are registered behind the JWT
\* middleware.
RouteVerifierJwtEverywhere(lin) == "jwt"

\* The middleware the protected routes of a lineage are registered with.
RouteVerifier(lin) == IF lin = "auth" THEN "supabase" ELSE "jwt"

AllAnswer == [t \in Tenants |-> "ok"]

Middleware(lin, header, out) ==
    IF RouteVerifier(lin) = "supabase" THEN VerifySupabaseToken(header, out)
    ELSE IF lin = "complete" THEN AuthenticateToken(header)
    ELSE VerifyToken(header)

\* A row of candidates_private / upholstery_private.
ProfileRow(t) ==
    [ id |-> "p1", email |-> StoredEmail, candidate_id |-> "cand1", created_at |-> "t0",
      phone |-> "p0", updated_at |-> OldTime ]

\* The row of another candidate, under another email.
OtherProfileRow ==
    [ ProfileRow("sewing") EXCEPT
        !.id = "p2", !.email = <<"b", "@", "x">>, !.candidate_id = "cand2" ]

Handled(response, d, pr, calls) == [resp |-> response, db |-> d, profiles |-> pr, ops |-> calls]

ProfileResp(email, accountType, unifiedId) ==
    [NoResp EXCEPT !.status = 200, !.user = <<UserSummary("", email, accountType, unifiedId)>>]

\* GET /api/profile, src/src/app.js 189-204
ProfileHandlerAuth(user) == Handled(ProfileResp(user.email, "", ""), db, profiles, <<>>)

\* GET /api/profile, src/src/app.js 1202-1230
ProfileHandlerJwt(user, out) ==
    LET t    == IF user.accountType = "sewing" THEN "sewing" ELSE "upholstery"
        hit  == { r \in db[t] : r.unified_id = user.unifiedId }
        call == <<Call(t, "select", out[t])>>
    IN  IF out[t] = "throw" THEN Handled(ErrorResp(500, "Server error"), db, profiles, call)
        ELSE IF out[t] = "error" \/ Cardinality(hit) # 1
        THEN Handled(ErrorResp(404, "Profile not found"), db, profiles, call)
        ELSE LET data == CHOOSE r \in hit : TRUE
             IN  Handled(ProfileResp(data.email, data.account_type, data.unified_id),
                         db, profiles, call)

\* GET /api/profile, src/unnamed/part_001 151-193
ProfileHandlerComplete(user, out) ==
    LET asks(t) == user.accountType \in {t, "both"}
        found(t) == out[t] = "ok" /\ \E r \in profiles[t] : r.email = user.email
        sCall == IF asks("sewing") THEN <<Call("sewing", "select", out["sewing"])>> ELSE <<>>
        viaSewing == asks("sewing") /\ found("sewing")
        uAsked == ~viaSewing /\ asks("upholstery")
        uCall == IF uAsked THEN <<Call("upholstery", "select", out["upholstery"])>> ELSE <<>>
    IN  IF asks("sewing") /\ out["sewing"] = "throw"
        THEN Handled(ErrorResp(500, "Internal server error"), db, profiles, sCall)
        ELSE IF uAsked /\ out["upholstery"] = "throw"
        THEN Handled(ErrorResp(500, "Internal server error"), db, profiles, sCall \o uCall)
        ELSE IF viaSewing \/ (uAsked /\ found("upholstery"))
        THEN Handled(ProfileResp(user.email, user.accountType, user.unifiedId),
                     db, profiles, sCall \o uCall)
        ELSE Handled(ErrorResp(404, "Profile not found"), db, profiles, sCall \o uCall)

ProtectedRequest(route, body) ==
    [route |-> route, email |-> <<>>, password |-> "", tenant |-> "none", body |-> body]

\* A request to a protected route: the middleware runs, and the route's
\* handler runs only when the middleware called next().
Protect(request, header, g, h) ==
    /\ req' = request
    /\ guard' = [header |-> header, user |-> g.user, next |-> g.next]
    /\ phase' = "responded"
    /\ IF g.next
       THEN /\ resp' = h.resp /\ db' = h.db /\ profiles' = h.profiles
            /\ ops' = g.calls \o h.ops
       ELSE /\ resp' = g.resp /\ db' = db /\ profiles' = profiles
            /\ ops' = g.calls
    /\ UNCHANGED <<lineage, inflight, tasks, results, now, wallet>>

\* The outcomes of the calls of one protected request: the provider calls of
\* the middleware and the store calls of the handler.
GuardOutcomes(lin) ==
    IF RouteVerifier(lin) = "supabase" THEN [Tenants -> GetUserOutcomes] ELSE {AllAnswer}

StoreOutcomes(lin) == IF lin = "auth" THEN {AllAnswer} ELSE [Tenants -> CallOutcomes]

GetProfile ==
    /\ phase = "idle"
    /\ \E header \in Headers, gout \in GuardOutcomes(lineage), out \in StoreOutcomes(lineage) :
          LET g == Middleware(lineage, header, gout)
              u == g.user[1]
              h == IF lineage = "auth" THEN ProfileHandlerAuth(u)
                   ELSE IF lineage = "jwt" THEN ProfileHandlerJwt(u, out)
                   ELSE ProfileHandlerComplete(u, out)
          IN  /\ (~g.next => out = AllAnswer)
              /\ Protect(ProtectedRequest("profile", <<>>), header, g, h)

\* A day passes.
Tick ==
    /\ phase = "idle"
    /\ now < MaxClock
    /\ now' = now + 1
    /\ UNCHANGED <<lineage, inflight, phase, db, req, ops, resp, tasks, results, wallet, guard,
                   profiles>>

\* Stores in which every account is active and has the password "pw1".
SessionStores ==
    { d \in [Tenants -> StoreContents] :
        \A t \in Tenants : d[t] \subseteq { AuthRow(TRUE, "pw1", k) : k \in AccountTypes } }

AllStoresAnswer == [t \in Tenants |-> [select |-> "ok", update |-> "ok"]]

\* What the stores (or providers) answer a sign-in: both respond, and the
\* sewing one may know no such account.
SignInOutcomes ==
    {AllStoresAnswer, [AllStoresAnswer EXCEPT !["sewing"].select = "error"]}

\* POST /api/login with both fields, answered by stores (or providers) that
\* respond.
SignIn ==
    /\ phase = "idle"
    /\ \E password \in Passwords, out \in SignInOutcomes :
          Serve(LoginRequest(StoredEmail, password),
                IF lineage = "auth"
                THEN LoginHandlerAuth(db, StoredEmail, password, out)
                ELSE IF lineage = "jwt"
                THEN LoginHandlerJwt(db, StoredEmail, password, out)
                ELSE LoginHandlerComplete(db, StoredEmail, password, out))

SessionInit ==
    /\ lineage \in {"auth", "jwt", "complete"}
    /\ phase = "idle"
    /\ db \in SessionStores
    /\ (lineage = "auth" => db = EmptyDb)
    /\ profiles \in [Tenants -> {{}, {ProfileRow("sewing")}}]
    /\ (lineage # "complete" => profiles = NoProfiles)
    /\ req = NoReq /\ resp = NoResp /\ ops = <<>>
    /\ tasks = <<>> /\ results = <<>>
    /\ now = 0 /\ wallet = NoToken /\ guard = NoGuard
    /\ inflight = <<>>

SessionNext == SignIn \/ GetProfile \/ Tick \/ Close

SessionSpec == SessionInit /\ [][SessionNext]_vars


-----------------------------------------------------------------------------
(* PUT /api/profile/change-password and PUT /api/profile/update *)

\* Variant of StoreOfAccount: every account is served from the sewing store.
StoreOfAccountSewingOnly(accountType) == "sewing"

\* const supabase = account_type === 'sewing' ? sewingSupabase : upholsterySupabase
StoreOfAccount(accountType) == IF accountType = "sewing" THEN "sewing" ELSE "upholstery"

\* Variant of IsPasswordValid: the comparison's result is not looked at.
IsPasswordValidUnchecked(currentPassword, password_hash) == TRUE

\* const isPasswordValid = await bcryptjs.compare(currentPassword, user.password_hash)
IsPasswordValid(currentPassword, password_hash) == BcryptCompare(currentPassword, password_hash)

\* update({ password_hash: newPasswordHash, ... }).eq('email', email)
WritePasswordHash(rows, email, newPasswordHash) ==
    { IF r.email = email THEN [r EXCEPT !.password_hash = newPasswordHash] ELSE r : r \in rows }

\* PUT /api/profile/change-password, src/unnamed/part_001 327-379
ChangePasswordHandler(user, currentPassword, newPassword, out) ==
    LET t       == StoreOfAccount(user.accountType)
        hit     == { r \in db[t] : r.email = user.email }
        selCall == Call(t, "select", out[t].select)
        updCall == Call(t, "update", out[t].update)
        internal(calls) == Handled(ErrorResp(500, "Internal server error"), db, profiles, calls)
    IN  IF currentPassword = "" \/ newPassword = ""
        THEN Handled(ErrorResp(400, "Current and new password are required"), db, profiles, <<>>)
        ELSE IF out[t].select = "throw" THEN internal(<<selCall>>)
        ELSE IF out[t].select = "error" \/ Cardinality(hit) # 1
        THEN Handled(ErrorResp(404, "User not found"), db, profiles, <<selCall>>)
        ELSE LET stored == CHOOSE r \in hit : TRUE
             IN  IF ~IsPasswordValid(currentPassword, stored.password_hash)
                 THEN Handled(ErrorResp(401, "Current password is incorrect"),
                              db, profiles, <<selCall>>)
                 ELSE IF out[t].update = "throw" THEN internal(<<selCall, updCall>>)
                 ELSE IF out[t].update = "error"
                 THEN Handled(ErrorResp(500, "Failed to update password"),
                              db, profiles, <<selCall, updCall>>)
                 ELSE Handled([NoResp EXCEPT !.status = 200],
                              [db EXCEPT ![t] = WritePasswordHash(@, user.email,
                                                                  BcryptHash(newPassword))],
                              profiles, <<selCall, updCall>>)

ChangePassword ==
    /\ phase = "idle" /\ lineage = "complete"
    /\ \E header \in Headers, currentPassword \in RequestPasswords,
          newPassword \in RequestPasswords, out \in LoginOutcomes :
          LET g == Middleware(lineage, header, AllAnswer)
              h == ChangePasswordHandler(g.user[1], currentPassword, newPassword, out)
          IN  /\ (~g.next => out = AllStoresAnswer)
              /\ Protect(ProtectedRequest("change-password",
                                          [currentPassword |-> currentPassword,
                                           newPassword |-> newPassword]),
                         header, g, h)

\* The fields the update handler deletes from the body.
ImmutableFields == {"id", "email", "candidate_id", "created_at"}

\* The columns a client may name in the body of an update.
BodyFields == ImmutableFields \cup {"phone"}

\* The value a client sends for a column: one the stored row does not have.
NewValue(f) == IF f = "email" THEN <<"e", "@", "x">> ELSE "new"

\* The bodies of an update: any set of columns, each with a new value.
UpdateBodies == UNION { [fs -> {"new"}] : fs \in SUBSET BodyFields }

BodyValue(updates, f) == NewValue(f)

\* Variant of StripImmutable: only `id` is deleted.
StripIdOnly(updates) == [f \in DOMAIN updates \ {"id"} |-> updates[f]]

\* delete updates.id; delete updates.email; delete updates.candidate_id;
\* delete updates.created_at
StripImmutable(updates) == [f \in DOMAIN updates \ ImmutableFields |-> updates[f]]

\* update({ ...updates, updated_at: new Date().toISOString() }) on one row
ApplyUpdates(row, updates) ==
    [ f \in DOMAIN row |->
        IF f = "updated_at" THEN NowTime
        ELSE IF f \in DOMAIN updates THEN BodyValue(updates, f)
        ELSE row[f] ]

\* PUT /api/profile/update, src/unnamed/part_001 286-324
UpdateProfileHandler(user, body, outcome) ==
    LET updates == StripImmutable(body)
        t       == StoreOfAccount(user.accountType)
        hit     == { r \in profiles[t] : r.email = user.email }
        call    == <<Call(t, "update", outcome)>>
    IN  IF outcome = "throw"
        THEN Handled(ErrorResp(500, "Internal server error"), db, profiles, call)
        ELSE IF outcome = "error" \/ Cardinality(hit) # 1
        THEN Handled(ErrorResp(500, "Failed to update profile"), db, profiles, call)
        ELSE LET data == ApplyUpdates(CHOOSE r \in hit : TRUE, updates)
             IN  Handled([NoResp EXCEPT !.status = 200, !.body = <<data>>], db,
                         [profiles EXCEPT ![t] = (@ \ hit) \cup {data}], call)

UpdateProfile ==
    /\ phase = "idle" /\ lineage = "complete"
    /\ \E header \in Headers, body \in UpdateBodies, outcome \in CallOutcomes :
          LET g == Middleware(lineage, header, AllAnswer)
              h == UpdateProfileHandler(g.user[1], body, outcome)
          IN  /\ (~g.next => outcome = "ok")
              /\ Protect(ProtectedRequest("update", body), header, g, h)

\* Stores whose accounts were registered with the tenant's own account type.
AccountStores ==
    { d \in [Tenants -> StoreContents] : \A t \in Tenants : \A r \in d[t] : r.account_type = t }

AccountInit ==
    /\ lineage = "complete"
    /\ phase = "idle"
    /\ db \in AccountStores
    /\ profiles \in [Tenants -> {{}, {ProfileRow("sewing"), OtherProfileRow}}]
    /\ req = NoReq /\ resp = NoResp /\ ops = <<>>
    /\ tasks = <<>> /\ results = <<>>
    /\ now = 0 /\ wallet = NoToken /\ guard = NoGuard
    /\ inflight = <<>>

AccountNext == SignIn \/ ChangePassword \/ UpdateProfile \/ Close

AccountSpec == AccountInit /\ [][AccountNext]_vars

-----------------------------------------------------------------------------
(* PUT /api/profile/change-password, await by await *)

\* Most password changes that are between two awaits at once.
MaxInFlight == 2

\* A request that passed authenticateToken and the body check and now awaits
\* its select: pc is the await it is suspended at, read the password_hash
\* the select returned, status the response once it is sent.
InFlight(user, currentPassword, newPassword) ==
    [ user |-> user, currentPassword |-> currentPassword, newPassword |-> newPassword,
      pc |-> "select", read |-> <<>>, status |-> 0 ]

\* src/unnamed/part_001 327-343: the middleware admits the request, both
\* fields are present, and the select is issued.
ReceiveChange ==
    /\ lineage = "complete"
    /\ Len(inflight) < MaxInFlight
    /\ \E header \in Headers, currentPassword \in Passwords, newPassword \in Passwords :
          LET g == Middleware(lineage, header, AllAnswer)
          IN  /\ g.next
              /\ inflight' = Append(inflight,
                                    InFlight(g.user[1], currentPassword, newPassword))
    /\ UNCHANGED <<lineage, phase, db, req, ops, resp, tasks, results, now, wallet, guard,
                   profiles>>

\* src/unnamed/part_001 339-347: the select answers.
ReadHash(i) ==
    /\ inflight[i].pc = "select"
    /\ \E out \in CallOutcomes :
          LET q   == inflight[i]
              t   == StoreOfAccount(q.user.accountType)
              hit == { r \in db[t] : r.email = q.user.email }
          IN  inflight' = [inflight EXCEPT ![i] =
                  IF out = "throw" THEN [q EXCEPT !.pc = "done", !.status = 500]
                  ELSE IF out = "error" \/ Cardinality(hit) # 1
                  THEN [q EXCEPT !.pc = "done", !.status = 404]
                  ELSE [q EXCEPT !.pc = "compare",
                                 !.read = <<(CHOOSE r \in hit : TRUE).password_hash>>]]
    /\ UNCHANGED <<lineage, phase, db, req, ops, resp, tasks, results, now, wallet, guard,
                   profiles>>

\* src/unnamed/part_001 350-357: bcryptjs.compare answers for the hash that
\* was read; the new hash is computed and the update is issued.
VerifyCurrent(i) ==
    /\ inflight[i].pc = "compare"
    /\ LET q == inflight[i]
       IN  inflight' = [inflight EXCEPT ![i] =
               IF IsPasswordValid(q.currentPassword, q.read[1])
               THEN [q EXCEPT !.pc = "update"]
               ELSE [q EXCEPT !.pc = "done", !.status = 401]]
    /\ UNCHANGED <<lineage, phase, db, req, ops, resp, tasks, results, now, wallet, guard,
                   profiles>>

\* src/unnamed/part_001 360-375: the update answers.
WriteHash(i) ==
    /\ inflight[i].pc = "update"
    /\ \E out \in CallOutcomes :
          LET q == inflight[i]
              t == StoreOfAccount(q.user.accountType)
          IN  IF out = "ok"
              THEN /\ db' = [db EXCEPT ![t] = WritePasswordHash(@, q.user.email,
                                                                BcryptHash(q.newPassword))]
                   /\ inflight' = [inflight EXCEPT ![i] = [q EXCEPT !.pc = "done", !.status = 200]]
              ELSE /\ db' = db
                   /\ inflight' = [inflight EXCEPT ![i] = [q EXCEPT !.pc = "done", !.status = 500]]
    /\ UNCHANGED <<lineage, phase, req, ops, resp, tasks, results, now, wallet, guard,
                   profiles>>

\* The response of a request has been sent; the request is over.
Respond(i) ==
    /\ inflight[i].pc = "done"
    /\ inflight' = [ k \in 1..(Len(inflight) - 1) |->
                       IF k < i THEN inflight[k] ELSE inflight[k + 1] ]
    /\ UNCHANGED <<lineage, phase, db, req, ops, resp, tasks, results, now, wallet, guard,
                   profiles>>

RaceInit ==
    /\ lineage = "complete"
    /\ phase = "idle"
    /\ db \in AccountStores \cap SessionStores
    /\ profiles = NoProfiles
    /\ req = NoReq /\ resp = NoResp /\ ops = <<>>
    /\ tasks = <<>> /\ results = <<>>
    /\ now = 0 /\ wallet = NoToken /\ guard = NoGuard
    /\ inflight = <<>>

RaceNext ==
    \/ SignIn \/ Close \/ ReceiveChange
    \/ \E i \in 1..Len(inflight) : ReadHash(i)
    \/ \E i \in 1..Len(inflight) : VerifyCurrent(i)
    \/ \E i \in 1..Len(inflight) : WriteHash(i)
    \/ \E i \in 1..Len(inflight) : Respond(i)

RaceSpec == RaceInit /\ [][RaceNext]_vars



-----------------------------------------------------------------------------
(* Geocoding client *)

\* Most records one store query returns.
MaxCandidates == 2

WhitespaceChars == {" ", "\t"}

IsPrintable(c) == c \notin WhitespaceChars

\* postcode.replace(/\s+/g, '')
StripWhitespace(s) == SelectSeq(s, IsPrintable)

\* postcode.replace(/\s+/g, '').toUpperCase()
CleanPostcode(s) == ToUpperCase(StripWhitespace(s))

PostcodeA == <<"m", "1", " ", "1", "a", "e">>

PostcodeB == <<"B", "1", "5", " ", "2", "T", "T">>

\* api.postcodes.io: the reply to GET /postcodes/<clean>.  A known postcode
\* gives status 200 and a result whose outward code is the postcode without
\* its three-character inward code; anything else gives 404 and no result.
PostcodesIo(clean) ==
    IF clean = CleanPostcode(PostcodeA)
    THEN [status |-> 200, hasResult |-> TRUE, latitude |-> 53, longitude |-> 0 - 2,
          outward_code |-> SubSeq(clean, 1, Len(clean) - 3)]
    ELSE IF clean = CleanPostcode(PostcodeB)
    THEN [status |-> 200, hasResult |-> TRUE, latitude |-> 52, longitude |-> 0 - 1,
          outward_code |-> SubSeq(clean, 1, Len(clean) - 3)]
    ELSE [status |-> 404, hasResult |-> FALSE, latitude |-> 0, longitude |-> 0,
          outward_code |-> <<>>]

\* What the network and the service do with one lookup: answer it ("ok"),
\* fail the fetch or the JSON parse ("throw"), answer with a non-200 status,
\* answer 200 without a result, or never answer ("hang").
GeoFates == {"ok", "throw", "non200", "noresult", "hang"}

\* The parsed reply `data` of one lookup that was answered.
GeoReply(clean, fate) ==
    LET known == PostcodesIo(clean)
    IN  IF fate = "non200" THEN [known EXCEPT !.status = 500, !.hasResult = FALSE]
        ELSE IF fate = "noresult" THEN [known EXCEPT !.status = 200, !.hasResult = FALSE]
        ELSE known

NoCoords == [found |-> FALSE, lat |-> 0, lon |-> 0, postcodeDistrict |-> <<>>]

\* Variant of GetCoordinatesFromPostcode: the reply's status and result are
\* not checked.
GetCoordinatesUnchecked(postcode, fate) ==
    IF ~Truthy(postcode) THEN NoCoords
    ELSE IF fate = "throw" THEN NoCoords
    ELSE LET data == GeoReply(CleanPostcode(postcode.v), fate)
         IN  [found |-> TRUE, lat |-> data.latitude, lon |-> data.longitude,
              postcodeDistrict |-> data.outward_code]

\* getCoordinatesFromPostcode(postcode) for a lookup that settles: null
\* (NoCoords) unless the reply has status 200 and a result.
GetCoordinatesFromPostcode(postcode, fate) ==
    IF ~Truthy(postcode) THEN NoCoords
    ELSE IF fate = "throw" THEN NoCoords
    ELSE LET data == GeoReply(CleanPostcode(postcode.v), fate)
         IN  IF data.status = 200 /\ data.hasResult
             THEN [found |-> TRUE, lat |-> data.latitude, lon |-> data.longitude,
                   postcodeDistrict |-> data.outward_code]
             ELSE NoCoords

-----------------------------------------------------------------------------
(* Attribute lists: the delimited columns of a candidate record *)

\* Longest attribute string drawn for a column.
MaxFieldLen == 4

\* The sentinel 'None selected', kept as one symbol of a string: a string
\* equals the sentinel exactly when it is this symbol alone.
NoneSelected == "None selected"

\* The symbols of an attribute string: letters, the sentinel in its authored
\* and in another letter case, a blank and the comma.
FieldAlphabet == {"a", NoneSelected, "none selected", " ", ","}

\* Index of the first occurrence of sep in s at or after position i; 0 if none.
RECURSIVE IndexOf(_, _, _)
IndexOf(s, sep, i) ==
    IF i + Len(sep) - 1 > Len(s) THEN 0
    ELSE IF SubSeq(s, i, i + Len(sep) - 1) = sep THEN i
    ELSE IndexOf(s, sep, i + 1)

\* String.prototype.split(sep), sep not empty: the pieces between the
\* occurrences of sep, empty pieces included.
RECURSIVE Split(_, _)
Split(s, sep) ==
    LET i == IndexOf(s, sep, 1)
    IN  IF i = 0 THEN <<s>>
        ELSE <<SubSeq(s, 1, i - 1)>> \o Split(SubSeq(s, i + Len(sep), Len(s)), sep)

\* String.prototype.trim: leading and trailing white space removed.
Trim(s) ==
    LET inked == { i \in DOMAIN s : IsPrintable(s[i]) }
    IN  IF inked = {} THEN <<>>
        ELSE SubSeq(s, CHOOSE i \in inked : \A j \in inked : i <= j,
                       CHOOSE i \in inked : \A j \in inked : i >= j)

MapTrim(parts) == [i \in DOMAIN parts |-> Trim(parts[i])]

\* The lineages whose sewing filter is `m => m` alone: src/src/index.js and
\* the last version of src/unnamed/part_000.
KeepsSentinel(lin) == lin \in {"index", "basic"}

\* The filter of the sewing columns: m => m && m !== 'None selected'
KeepElement(lin, m) == m # <<>> /\ (KeepsSentinel(lin) \/ m # <<NoneSelected>>)

Listed(l) == [threw |-> FALSE, list |-> l]

\* A TypeError: split is not a function of an array.
Threw == [threw |-> TRUE, list |-> <<>>]

\* c.machines ? c.machines.split(',').map(m => m.trim()).filter(...) : []
SewingList(lin, field) ==
    IF ~Truthy(field) THEN Listed(<<>>)
    ELSE IF field.t # "string" THEN Threw
    ELSE Listed(SelectSeq(MapTrim(Split(field.v, <<",">>)), LAMBDA m : KeepElement(lin, m)))

\* c.products ? (Array.isArray(c.products) ? c.products
\*                 : c.products.split(',').map(s => s.trim())) : []
UpholsteryList(field) ==
    IF ~Truthy(field) THEN Listed(<<>>)
    ELSE IF field.t = "list" THEN Listed(field.v)
    ELSE Listed(MapTrim(Split(field.v, <<",">>)))

\* c.sewing_machines_used ? c.sewing_machines_used.split(', ') : []
UpholsteryMachines(field) ==
    IF ~Truthy(field) THEN Listed(<<>>)
    ELSE IF field.t # "string" THEN Threw
    ELSE Listed(Split(field.v, <<",", " ">>))

\* The attribute members of the candidate object built from row c: the
\* machines column (machines / sewing_machines_used) and the products column.
MachinesOf(lin, tenant, c) ==
    IF tenant = "upholstery" THEN UpholsteryMachines(c.machines) ELSE SewingList(lin, c.machines)

ProductsOf(lin, tenant, c) ==
    IF tenant = "upholstery" THEN UpholsteryList(c.products) ELSE SewingList(lin, c.products)

\* Building the candidate object of row c throws.
BuildThrows(lin, tenant, c) ==
    MachinesOf(lin, tenant, c).threw \/ ProductsOf(lin, tenant, c).threw

-----------------------------------------------------------------------------
(* Candidate listing and single-candidate fetch *)

CandidateId(i) == <<"C", i>>

\* What a row carries beside its keys: the two delimited columns, machines
\* (sewing_machines_used in the upholstery table) and products, and the value
\* of its scalar columns.
Attributes(machines, products, scalar) ==
    [machines |-> machines, products |-> products, scalar |-> scalar]

\* A row of candidates_public / upholstery_public.
PublicRow(i, attrs) ==
    [ id |-> i, candidate_id |-> CandidateId(i),
      machines |-> attrs.machines, products |-> attrs.products,
      job_title |-> attrs.scalar, status |-> attrs.scalar, work_type |-> attrs.scalar,
      desired_salary |-> attrs.scalar, sewing_machine_experience |-> attrs.scalar ]

\* A scalar column that holds a text.
SomeText == JStr(<<"a">>)

\* c.x || 'literal'
OrDefault(x, literal) == IF Truthy(x) THEN x ELSE JStr(<<literal>>)

\* The scalar members of the candidate object built from row c; a member
\* the tenant's object does not have is undefined.
ScalarMembers(tenant, c) ==
    IF tenant = "upholstery"
    THEN [ role |-> OrDefault(c.job_title, "Upholsterer"),
           availability |-> OrDefault(c.status, "Not specified"),
           workType |-> OrDefault(c.work_type, "Not specified"),
           desiredSalary |-> JUndef,
           sewingMachineExperience |-> OrDefault(c.sewing_machine_experience, "None") ]
    ELSE [ role |-> c.job_title,
           availability |-> OrDefault(c.status, "Unknown"),
           workType |-> c.work_type,
           desiredSalary |-> OrDefault(c.desired_salary, "Competitive"),
           sewingMachineExperience |-> JUndef ]

\* A native array held by a column.
NativeList == << <<"a">>, <<"a", " ">> >>

\* A column text with a blank element, the sentinel and a padded element.
SampleText == <<"a", ",", " ", ",", NoneSelected, ",", " ", "a", " ">>

\* What the delimited columns of the rows of one result hold when the rows
\* are enriched: nothing, text, or a native array in one of the two.
AttributeSamples ==
    { Attributes(JNull, JNull, JNull),
      Attributes(JStr(SampleText), JStr(SampleText), SomeText),
      Attributes(JStr(SampleText), JList(NativeList), SomeText),
      Attributes(JList(NativeList), JStr(SampleText), SomeText) }

\* The lineages that serve the public table alone, without a postcode
\* lookup: the single-tenant version of src/src/app.js, src/src/index.js and
\* the last version of src/unnamed/part_000.
PlainLineages == {"plain", "index", "basic"}

\* What the private table holds for one candidate: no row, or a row whose
\* postcode is null, empty or a postcode.
PrivatePostcodes == {JUndef, JNull, JStr(<<>>), JStr(PostcodeA), JStr(PostcodeB)}

\* privateData?.find(p => p.candidate_id === c.candidate_id)?.postcode
\* privateData is the sequence of rows [candidate_id, postcode], or null.
FindPostcode(privateData, candidate_id) ==
    IF privateData.isNull THEN JUndef
    ELSE LET hits == { j \in DOMAIN privateData.rows :
                          privateData.rows[j].candidate_id = candidate_id }
         IN  IF hits = {} THEN JUndef
             ELSE privateData.rows[CHOOSE j \in hits : \A k \in hits : j <= k].postcode

JCoords(coords) ==
    IF coords.found THEN [t |-> "object", v |-> <<coords.lat, coords.lon>>] ELSE JNull

\* Variant of JDistrict: the district carries the number of calls the
\* request had made when the record was built.
JDistrictStamped(coords) ==
    IF coords.found THEN JStr(Append(coords.postcodeDistrict, Len(ops))) ELSE JNull

JDistrict(coords) == IF coords.found THEN JStr(coords.postcodeDistrict) ELSE JNull

\* The value of an attribute member; nothing is built when the build throws.
Member(normalized) == IF normalized.threw THEN JUndef ELSE JList(normalized.list)

\* The `postcode` member of the candidate object: only the "dual" lineage
\* writes one (postcode: privateRecord?.postcode).
PostcodeMember(lin, postcode) == IF lin = "dual" THEN postcode ELSE JUndef

\* The candidate object one record is mapped to.  The "geo" lineage names
\* the coordinates member `coordinates` and writes no `type`.
UnifiedCandidate(lin, tenant, c, postcode, coords) ==
    [ id |-> c.id,
      candidateId |-> c.candidate_id,
      role |-> ScalarMembers(tenant, c).role,
      availability |-> ScalarMembers(tenant, c).availability,
      workType |-> ScalarMembers(tenant, c).workType,
      desiredSalary |-> ScalarMembers(tenant, c).desiredSalary,
      sewingMachineExperience |-> ScalarMembers(tenant, c).sewingMachineExperience,
      machines |-> Member(MachinesOf(lin, tenant, c)),
      products |-> Member(ProductsOf(lin, tenant, c)),
      postcode |-> PostcodeMember(lin, postcode),
      postcodeDistrict |-> IF lin \in PlainLineages THEN JUndef ELSE JDistrict(coords),
      postcodeCoords |-> IF lin \in PlainLineages \cup {"geo"} THEN JUndef ELSE JCoords(coords),
      coordinates |-> IF lin = "geo" THEN JCoords(coords) ELSE JUndef,
      type |-> IF lin \in PlainLineages \cup {"geo"} THEN "undefined" ELSE tenant ]

EmptySlot == <<>>

\* Variant of Collect: values are pushed in the order they arrive.
CollectInArrivalOrder(slots, i, value) ==
    LET free == { k \in DOMAIN slots : slots[k] = EmptySlot }
    IN  IF free = {} THEN slots
        ELSE [slots EXCEPT ![CHOOSE k \in free : \A m \in free : k <= m] = <<value>>]

\* Promise.all keeps the value of the i-th promise in the i-th position.
Collect(slots, i, value) == [slots EXCEPT ![i] = <<value>>]

Task(c, postcode, fate) ==
    [ row |-> c, postcode |-> postcode, fate |-> fate,
      state |-> IF Truthy(postcode) THEN "pending" ELSE "done" ]

\* The slots after the callbacks of records 1..k ran up to their first await:
\* a record without a usable postcode awaits nothing and is complete at once.
RECURSIVE LaunchSlots(_, _, _, _)
LaunchSlots(lin, tenant, ts, k) ==
    IF k = 0 THEN [i \in DOMAIN ts |-> EmptySlot]
    ELSE LET before == LaunchSlots(lin, tenant, ts, k - 1)
         IN  IF ts[k].state = "done" /\ ~BuildThrows(lin, tenant, ts[k].row)
             THEN Collect(before, k,
                          UnifiedCandidate(lin, tenant, ts[k].row, ts[k].postcode, NoCoords))
             ELSE before

AllSettled(slots) == \A i \in DOMAIN slots : slots[i] # EmptySlot

\* The message of the catch block of a listing or single-candidate handler.
FetchFailure(lin, route, tenant) ==
    ErrorResp(500, IF route = "single" THEN "Failed to fetch candidate"
                   ELSE IF lin \in PlainLineages \cup {"geo"} THEN "Failed to fetch candidates"
                   ELSE IF tenant = "sewing" THEN "Failed to fetch sewing candidates"
                   ELSE "Failed to fetch upholstery candidates")

\* The callback of record k has run to its end and threw while building the
\* candidate object: its promise is rejected.
Rejects(lin, tenant, t) == t.state = "done" /\ BuildThrows(lin, tenant, t.row)

\* res.json(candidates): the collected values in slot order.
Body(slots) == [i \in DOMAIN slots |-> slots[i][1]]

ListRequest(route, tenant) ==
    [route |-> route, email |-> <<>>, password |-> "", tenant |-> tenant, body |-> <<>>]

ListingTenants(lin) == IF lin = "geo" THEN {"sewing"} ELSE Tenants

PrivateData(isNull, n, pcs) ==
    [ isNull |-> isNull,
      rows |-> IF isNull THEN <<>>
               ELSE SelectSeq([i \in 1..n |-> [candidate_id |-> CandidateId(i),
                                               postcode |-> pcs[i]]],
                              LAMBDA r : r.postcode # JUndef) ]

\* The handler from its start to the point where it awaits Promise.all, or
\* to its response when nothing is awaited.
StartFanOut(request, calls, ts) ==
    LET slots == LaunchSlots(lineage, request.tenant, ts, Len(ts))
    IN  /\ req' = request
        /\ ops' = calls
        /\ tasks' = ts
        /\ results' = slots
        /\ IF \E k \in DOMAIN ts : Rejects(lineage, request.tenant, ts[k])
           THEN /\ phase' = "responded"
                /\ resp' = FetchFailure(lineage, request.route, request.tenant)
           ELSE IF AllSettled(slots)
           THEN /\ phase' = "responded"
                /\ resp' = [NoResp EXCEPT !.status = 200, !.body = Body(slots)]
           ELSE /\ phase' = "fanout"
                /\ resp' = NoResp
        /\ UNCHANGED <<lineage, inflight, db, now, wallet, guard, profiles>>

\* Variant of Reply: the handler looks the postcode up before it answers.
ReplyAfterLookup(request, calls, response) ==
    /\ req' = request
    /\ ops' = Append(calls, [store |-> "postcodes.io", op |-> "lookup", result |-> "ok", slot |-> 1])
    /\ resp' = response
    /\ phase' = "responded"
    /\ UNCHANGED <<lineage, inflight, db, tasks, results, now, wallet, guard, profiles>>

Reply(request, calls, response) ==
    /\ req' = request
    /\ ops' = calls
    /\ resp' = response
    /\ phase' = "responded"
    /\ UNCHANGED <<lineage, inflight, db, tasks, results, now, wallet, guard, profiles>>

\* The two store queries of a listing or single-candidate request: both are
\* awaited before the public error is looked at.
CandidateQueries(tenant, publicError, privateNull) ==
    << Call(tenant, "select_public", IF publicError THEN "error" ELSE "ok"),
       Call(tenant, "select_private", IF privateNull THEN "error" ELSE "ok") >>

\* A geocoding lookup that settled, for the record in slot i.
GeoCall(i, fate) == [store |-> "postcodes.io", op |-> "lookup", result |-> fate, slot |-> i]

\* GET /api/candidates and GET /api/upholstery
ListCandidates ==
    /\ phase = "idle"
    /\ \E tenant \in ListingTenants(lineage), publicError \in BOOLEAN,
          privateNull \in BOOLEAN, n \in 0..MaxCandidates, attrs \in AttributeSamples :
       \E pcs \in [1..n -> PrivatePostcodes], fates \in [1..n -> GeoFates] :
          LET publicData  == [i \in 1..n |-> PublicRow(i, attrs)]
              privateData == PrivateData(privateNull, n, pcs)
              calls == CandidateQueries(tenant, publicError, privateNull)
              ts == [i \in 1..n |->
                        Task(publicData[i],
                             FindPostcode(privateData, publicData[i].candidate_id),
                             fates[i])]
          IN  /\ \A i \in 1..n : ts[i].state = "done" => fates[i] = "ok"
              /\ n = 0 => attrs = Attributes(JNull, JNull, JNull)
              /\ IF publicError
                 THEN /\ n = 0
                      /\ Reply(ListRequest("list", tenant), calls,
                               ErrorResp(400, "publicError.message"))
                 ELSE StartFanOut(ListRequest("list", tenant), calls, ts)

\* GET /api/candidates/:id and GET /api/upholstery/:id
FetchCandidate ==
    /\ phase = "idle"
    /\ \E tenant \in ListingTenants(lineage), publicError \in BOOLEAN,
          postcode \in PrivatePostcodes, fate \in GeoFates, attrs \in AttributeSamples :
          LET t == Task(PublicRow(1, attrs), postcode, fate)
              calls == CandidateQueries(tenant, publicError, postcode = JUndef)
          IN  /\ t.state = "done" => fate = "ok"
              /\ IF publicError
                 THEN /\ fate = "ok" /\ attrs = Attributes(JNull, JNull, JNull)
                      /\ Reply(ListRequest("single", tenant), calls,
                               ErrorResp(404, "Candidate not found"))
                 ELSE StartFanOut(ListRequest("single", tenant), calls, <<t>>)

\* One lookup settles and the callback of its record runs to its end; when
\* it was the last one, Promise.all resolves and the handler responds.
CompleteLookup(i) ==
    /\ phase = "fanout"
    /\ i \in DOMAIN tasks
    /\ tasks[i].state = "pending"
    /\ tasks[i].fate # "hang"
    /\ LET t      == tasks[i]
           coords == GetCoordinatesFromPostcode(t.postcode, t.fate)
           threw  == BuildThrows(lineage, req.tenant, t.row)
           slots  == IF threw THEN results
                     ELSE Collect(results, i,
                                  UnifiedCandidate(lineage, req.tenant, t.row, t.postcode, coords))
       IN  /\ tasks' = [tasks EXCEPT ![i].state = "done"]
           /\ results' = slots
           /\ IF threw
              THEN /\ phase' = "responded"
                   /\ resp' = FetchFailure(lineage, req.route, req.tenant)
              ELSE IF AllSettled(slots)
              THEN /\ phase' = "responded"
                   /\ resp' = [NoResp EXCEPT !.status = 200, !.body = Body(slots)]
              ELSE /\ phase' = "fanout"
                   /\ resp' = NoResp
    /\ ops' = Append(ops, GeoCall(i, tasks[i].fate))
    /\ UNCHANGED <<lineage, inflight, db, req, now, wallet, guard, profiles>>

CompleteSomeLookup == \E i \in 1..MaxCandidates : CompleteLookup(i)

ListingInit ==
    /\ lineage \in {"auth", "dual", "geo"}
    /\ phase = "idle"
    /\ db = EmptyDb
    /\ req = NoReq /\ resp = NoResp /\ ops = <<>>
    /\ tasks = <<>> /\ results = <<>>
    /\ now = 0 /\ wallet = NoToken /\ guard = NoGuard /\ profiles = NoProfiles
    /\ inflight = <<>>

ListingNext == ListCandidates \/ FetchCandidate \/ CompleteSomeLookup \/ Close

ListingSpec == ListingInit /\ [][ListingNext]_vars

\* The event loop runs every callback that is ready, and a written response
\* is flushed.
ListingFairSpec ==
    ListingSpec /\ WF_vars(CompleteSomeLookup) /\ WF_vars(Close)

-----------------------------------------------------------------------------
(* Listing without enrichment: the public table alone *)

\* Every text of at most MaxFieldLen symbols.
FieldTexts == UNION { [1..k -> FieldAlphabet] : k \in 0..MaxFieldLen }

\* What a delimited column can hold: null, a text, or a native array.
FieldValues ==
    {JNull} \cup { JStr(s) : s \in FieldTexts } \cup {JList(<<>>), JList(NativeList)}

\* The products column next to the machines column under study.
ProductsValues == {JNull, JStr(<<"a", ",", NoneSelected>>)}

PlainQuery(outcome) == <<Call("sewing", "select_public", outcome)>>

\* GET /api/candidates of a lineage without enrichment: one query, then the
\* map over its rows; nothing is awaited inside the map.
ListPlain ==
    /\ phase = "idle"
    /\ lineage \in PlainLineages
    /\ \E outcome \in {"ok", "error"}, n \in 0..1,
          machines \in FieldValues, products \in ProductsValues, scalar \in {JNull, SomeText} :
          LET ts == [i \in 1..n |->
                        Task(PublicRow(i, Attributes(machines, products, scalar)), JUndef, "ok")]
          IN  /\ n = 0 => machines = JNull /\ products = JNull /\ scalar = JNull
              /\ IF outcome = "error"
                 THEN /\ n = 0
                      /\ Reply(ListRequest("list", "sewing"), PlainQuery(outcome),
                               ErrorResp(400, "error.message"))
                 ELSE StartFanOut(ListRequest("list", "sewing"), PlainQuery(outcome), ts)

\* GET /api/candidates/:id of a lineage without enrichment: res.json(data),
\* the row as the store returned it.
FetchPlain ==
    /\ phase = "idle"
    /\ lineage \in {"plain", "index"}
    /\ \E outcome \in {"ok", "error"}, machines \in FieldValues, products \in ProductsValues :
          LET row == PublicRow(1, Attributes(machines, products, SomeText))
          IN  IF outcome = "error"
              THEN /\ machines = JNull /\ products = JNull
                   /\ Reply(ListRequest("single", "sewing"), PlainQuery(outcome),
                            ErrorResp(404, "Candidate not found"))
              ELSE /\ req' = ListRequest("single", "sewing")
                   /\ ops' = PlainQuery(outcome)
                   /\ tasks' = <<Task(row, JUndef, "ok")>>
                   /\ results' = <<EmptySlot>>
                   /\ resp' = [NoResp EXCEPT !.status = 200, !.body = <<row>>]
                   /\ phase' = "responded"
                   /\ UNCHANGED <<lineage, inflight, db, now, wallet, guard, profiles>>

CatalogInit ==
    /\ lineage \in PlainLineages
    /\ phase = "idle"
    /\ db = EmptyDb
    /\ req = NoReq /\ resp = NoResp /\ ops = <<>>
    /\ tasks = <<>> /\ results = <<>>
    /\ now = 0 /\ wallet = NoToken /\ guard = NoGuard /\ profiles = NoProfiles
    /\ inflight = <<>>

CatalogNext == ListPlain \/ FetchPlain \/ Close

CatalogSpec == CatalogInit /\ [][CatalogNext]_vars


-----------------------------------------------------------------------------
(* Properties of login *)

InvalidCredentials == ErrorResp(401, "Invalid email or password")

LoginAnswered == phase = "responded" /\ req.route = "login"

\* Every store call of the request was answered without error.
StoresAnswered == \A k \in DOMAIN ops : ops[k].result = "ok"

NoCallThrew == \A k \in DOMAIN ops : ops[k].result # "throw"

Queried(t) == \E k \in DOMAIN ops : ops[k].store = t

Updated(t) == \E k \in DOMAIN ops : ops[k].store = t /\ ops[k].op = "update"

Succeeded == resp.status = 200 /\ resp.token # NoToken /\ resp.user # NoUser

\* The tenant tag is t in the response body and in the issued token.
TaggedAs(t) == resp.user[1].accountType = t /\ resp.token[1].accountType = t

PresentIn(t, email) == \E r \in db[t] : r.email = email

InactiveIn(t, email) == \E r \in db[t] : r.email = email /\ ~r.is_active

ValidIn(t, email, password) ==
    \E r \in db[t] : r.email = email /\ r.is_active /\ BcryptCompare(password, r.password_hash)

WrongPasswordIn(t, email, password) ==
    \E r \in db[t] : r.email = email /\ r.is_active /\ ~BcryptCompare(password, r.password_hash)

OtherTenant(t) == CHOOSE u \in Tenants : u # t

\* C1: credentials valid (active row, matching password) in exactly one
\* tenant store A and absent from the other log in, and the tenant tag in
\* the response and in the token is A.
C1_ValidInOneTenantLogsInAsThatTenant ==
    \A A \in Tenants :
        ( /\ LoginAnswered /\ StoresAnswered
          /\ ValidIn(A, req.email, req.password)
          /\ ~PresentIn(OtherTenant(A), req.email) )
        => (Succeeded /\ TaggedAs(A))

\* C2: a wrong password on the active sewing row does not block the
\* upholstery store: with a matching active upholstery row the login queries
\* upholstery and succeeds tagged upholstery.
C2_WrongPasswordInSewingDoesNotBlockUpholstery ==
    ( /\ LoginAnswered /\ StoresAnswered
      /\ WrongPasswordIn("sewing", req.email, req.password)
      /\ ValidIn("upholstery", req.email, req.password) )
    => (Queried("upholstery") /\ Succeeded /\ TaggedAs("upholstery"))

\* C3: with an inactive sewing row and a valid upholstery row, the login
\* never authenticates against the sewing row (its store is not written, its
\* last_login stays) and succeeds tagged upholstery.
C3_InactiveSewingRowIsSkipped ==
    ( /\ LoginAnswered /\ StoresAnswered
      /\ InactiveIn("sewing", req.email)
      /\ ValidIn("upholstery", req.email, req.password) )
    => /\ ~Updated("sewing")
       /\ \A r \in db["sewing"] : r.last_login = OldTime
       /\ Succeeded /\ TaggedAs("upholstery")

\* The email as the stores key it: without regard to letter case.
KeyRows(t, email) == { r \in db[t] : ToLowerCase(r.email) = ToLowerCase(email) }

\* Why credentials are invalid: "absent" (no row in either store), "inactive"
\* (rows, none active), "wrongpw" (active rows, none with this password);
\* otherwise "valid".
CredentialCase(email, password) ==
    LET rows   == UNION { KeyRows(t, email) : t \in Tenants }
        active == { r \in rows : r.is_active }
    IN  IF rows = {} THEN "absent"
        ELSE IF active = {} THEN "inactive"
        ELSE IF \A r \in active : ~BcryptCompare(password, r.password_hash) THEN "wrongpw"
        ELSE "valid"

\* C4: a login with an absent email, with an inactive account and with a
\* wrong password are answered identically: status 401 and the one body
\* "Invalid email or password", nothing else.  (In the "auth" lineage the
\* identity provider decides; every sign-in it rejects is answered so.)
C4_InvalidCredentialsAreUniform ==
    /\ ( /\ LoginAnswered /\ lineage \in {"jwt", "complete"} /\ NoCallThrew
         /\ req.email # <<>> /\ req.password # ""
         /\ CredentialCase(req.email, req.password) \in {"absent", "inactive", "wrongpw"} )
       => resp = InvalidCredentials
    /\ ( /\ LoginAnswered /\ lineage = "auth"
         /\ req.email # <<>> /\ req.password # ""
         /\ \A k \in DOMAIN ops : ops[k].result # "ok" )
       => resp = InvalidCredentials

\* A login with the right password of an inactive account was answered 401.
C4_Witness ==
    /\ LoginAnswered /\ lineage = "complete" /\ StoresAnswered
    /\ CredentialCase(req.email, req.password) = "inactive"
    /\ \E t \in Tenants : \E r \in db[t] : BcryptCompare(req.password, r.password_hash)
    /\ resp = InvalidCredentials

\* C5: stores are tried sewing first and resolution stops at the first
\* match: credentials valid in both tenants log in tagged sewing, and the
\* upholstery store is neither queried nor updated.
C5_FirstMatchWinsAndStops ==
    ( /\ LoginAnswered /\ StoresAnswered
      /\ ValidIn("sewing", req.email, req.password)
      /\ ValidIn("upholstery", req.email, req.password) )
    => (Succeeded /\ TaggedAs("sewing") /\ ~Queried("upholstery"))

\* C6: a login request without email or without password is answered 400
\* and issues no query and no update to either store.
C6_IncompleteBodyTouchesNoStore ==
    (LoginAnswered /\ (req.email = <<>> \/ req.password = ""))
    => (resp.status = 400 /\ resp.token = NoToken /\ ops = <<>>)

\* A request with an email whose row exists but without a password got 400.
C6_Witness ==
    /\ LoginAnswered /\ req.email = StoredEmail /\ req.password = ""
    /\ \E t \in Tenants : PresentIn(t, req.email)
    /\ resp.status = 400 /\ ops = <<>>


-----------------------------------------------------------------------------
(* Properties of the candidate endpoints *)

CandidatesAnswered == phase = "responded" /\ req.route \in {"list", "single"}

ListingAnswered == phase = "responded" /\ req.route = "list"

PublicQueryAnswered == ops # <<>> /\ ops[1].op = "select_public" /\ ops[1].result = "ok"

\* The coordinates member of a candidate object, whatever the lineage names it.
CoordinatesOf(c) == IF lineage = "geo" THEN c.coordinates ELSE c.postcodeCoords

\* The members of a candidate object that carry postal text.
PostalMembers(c) == {c.postcode, c.postcodeDistrict}

\* The raw postcodes of the private record set the request read.
RawPostcodes == { tasks[j].postcode : j \in { k \in DOMAIN tasks : Truthy(tasks[k].postcode) } }

\* C7: no candidate object of a listing or single-candidate response has a
\* member equal to a raw postcode of the private record set.
C7_NoRawPostcodeInResponse ==
    (CandidatesAnswered /\ resp.status = 200)
    => \A i \in DOMAIN resp.body : PostalMembers(resp.body[i]) \cap RawPostcodes = {}

\* The lookup of record i did not produce coordinates: it threw, was
\* answered with a non-200 status or without a result, or the record has no
\* known postcode.
LookupFailed(i) ==
    \/ ~Truthy(tasks[i].postcode)
    \/ tasks[i].fate \in {"throw", "non200", "noresult"}

\* C8: whatever subset of the lookups of a listing fails, the response is a
\* success with exactly one record per store record; the records whose
\* lookup failed (or that have no known postcode) have coordinates and
\* postcodeDistrict null, all others have both.
C8_LookupFailuresNeverAbortTheBatch ==
    (ListingAnswered /\ PublicQueryAnswered)
    => /\ resp.status = 200
       /\ Len(resp.body) = Len(tasks)
       /\ \A i \in DOMAIN tasks :
             IF LookupFailed(i)
             THEN /\ CoordinatesOf(resp.body[i]) = JNull
                  /\ resp.body[i].postcodeDistrict = JNull
             ELSE /\ CoordinatesOf(resp.body[i]).t = "object"
                  /\ resp.body[i].postcodeDistrict.t = "string"
                  /\ resp.body[i].postcodeDistrict.v # <<>>

\* A two-record listing was answered in which the lookup of one record threw
\* and the other record is enriched.
C8_Witness ==
    /\ ListingAnswered /\ resp.status = 200 /\ Len(resp.body) = 2
    /\ \E i, j \in DOMAIN tasks :
          /\ Truthy(tasks[i].postcode) /\ tasks[i].fate = "throw"
          /\ CoordinatesOf(resp.body[i]) = JNull
          /\ Truthy(tasks[j].postcode) /\ tasks[j].fate = "ok"
          /\ CoordinatesOf(resp.body[j]).t = "object"

\* The lookups that settled, in the order they settled.
SettleOrder == SelectSeq(ops, LAMBDA c : c.op = "lookup")

\* C9: under every completion order of the lookups, the i-th record of a
\* listing response is built from the i-th record of the store's result and
\* from the lookup of that record's own postcode; while the fan-out runs,
\* every filled slot holds the record of its own position.
C9_SlotsKeepStoreOrder ==
    /\ (phase = "fanout" /\ req.route = "list")
       => \A i \in DOMAIN results :
             results[i] # EmptySlot
             => /\ tasks[i].state = "done"
                /\ results[i][1].candidateId = tasks[i].row.candidate_id
    /\ (ListingAnswered /\ resp.status = 200)
       => /\ Len(resp.body) = Len(tasks)
          /\ \A i \in DOMAIN tasks :
                /\ tasks[i].row.candidate_id = CandidateId(i)
                /\ resp.body[i].id = tasks[i].row.id
                /\ resp.body[i].candidateId = tasks[i].row.candidate_id
                /\ LET own == GetCoordinatesFromPostcode(tasks[i].postcode, tasks[i].fate)
                   IN  /\ CoordinatesOf(resp.body[i]) = JCoords(own)
                       /\ resp.body[i].postcodeDistrict = JDistrict(own)

\* A listing of two records with different postcodes was answered after the
\* lookup of the second record settled before the lookup of the first.
C9_Witness ==
    /\ ListingAnswered /\ resp.status = 200 /\ Len(resp.body) = 2
    /\ tasks[1].postcode = JStr(PostcodeA) /\ tasks[2].postcode = JStr(PostcodeB)
    /\ tasks[1].fate = "ok" /\ tasks[2].fate = "ok"
    /\ Len(SettleOrder) = 2 /\ SettleOrder[1].slot = 2 /\ SettleOrder[2].slot = 1
    /\ resp.body[1].postcodeDistrict = JStr(<<"M", "1">>)
    /\ resp.body[2].postcodeDistrict = JStr(<<"B", "1", "5">>)

\* C10: a listing whose fan-out is running is eventually answered, also
\* when one of its lookups never completes.
C10_ListingIsEventuallyAnswered == (phase = "fanout") ~> (phase = "responded")

-----------------------------------------------------------------------------
(* Properties of the token middleware and the protected routes *)

ProtectedAnswered ==
    phase = "responded" /\ req.route \in {"profile", "change-password", "update"}

\* The token of the request's Authorization header, if it has one.
Presented == BearerToken(guard.header)

\* The request was turned away by the middleware: next() was not called, so
\* the route's handler did not run, and req.user was not set.
TurnedAway == ~guard.next /\ guard.user = <<>>

\* The presented token is no token, or carries a signature that is not the
\* issuer's.
ForgedOrMalformed ==
    Presented # <<>> /\ (Presented[1] = MalformedToken \/ Presented[1].issuer = "attacker")

\* C11: a protected route answers a request without a bearer token with 401
\* and a request with a forged or malformed token with 403 (when the provider
\* the "auth" lineage asks does not throw); in both cases the handler does
\* not run and no identity is attached to the request.
C11_MissingIs401ForgedIs403 ==
    /\ (ProtectedAnswered /\ Presented = <<>>)
       => (resp.status = 401 /\ TurnedAway /\ ops = <<>>)
    /\ (ProtectedAnswered /\ ForgedOrMalformed)
       => (TurnedAway /\ (NoCallThrew => resp.status = 403))

\* The token of the last login, unexpired, was presented under a forged
\* signature and answered 403.
C11_Witness ==
    /\ ProtectedAnswered /\ lineage \in {"jwt", "complete"}
    /\ wallet # NoToken /\ now < wallet[1].exp
    /\ Presented = <<Forge(wallet[1])>>
    /\ resp.status = 403 /\ TurnedAway

\* The request presents the token the last login issued.
PresentsIssuedToken == ProtectedAnswered /\ wallet # NoToken /\ Presented = wallet

\* C12: the token a login issued is accepted only before its expiry; from
\* the expiry on, every request presenting it is answered 403 (500 when the
\* provider call of the "auth" lineage throws) and is never admitted.
C12_IssuedTokenIsRefusedAfterExpiry ==
    /\ (PresentsIssuedToken /\ guard.next) => now < wallet[1].exp
    /\ (PresentsIssuedToken /\ now >= wallet[1].exp)
       => (TurnedAway /\ (NoCallThrew => resp.status = 403))

\* A self-issued token was presented after its seven days and answered 403.
C12_Witness ==
    /\ PresentsIssuedToken /\ lineage \in {"jwt", "complete"}
    /\ wallet[1].scheme = "jwt" /\ wallet[1].issuer = "app"
    /\ now >= wallet[1].exp
    /\ resp.status = 403 /\ TurnedAway

\* C17: the routes of one application admit tokens of one scheme only: the
\* self-issuing lineages admit nothing but JWTs signed with the server's
\* secret, the "auth" lineage nothing but sessions of a project's provider.
C17_SchemesAreNeverMixed ==
    (ProtectedAnswered /\ guard.next)
    => /\ Presented # <<>>
       /\ IF lineage = "auth"
          THEN Presented[1].scheme = "supabase" /\ Presented[1].issuer \in Tenants
          ELSE Presented[1].scheme = "jwt" /\ Presented[1].issuer = "app"

\* An unexpired token of the other scheme was presented and turned away.
C17_Witness ==
    /\ ProtectedAnswered /\ Presented # <<>>
    /\ Presented[1] = ForeignToken(lineage) /\ now < Presented[1].exp
    /\ NoCallThrew
    /\ resp.status = 403 /\ TurnedAway

ChangePasswordAnswered == phase = "responded" /\ req.route = "change-password"

PasswordHashes(d) == [t \in Tenants |-> { <<r.email, r.password_hash>> : r \in d[t] }]

\* The rows, in store contents d, of the account an identity stands for.
AccountRows(d, user) == { r \in d[StoreOfAccount(user.accountType)] : r.email = user.email }

\* C13: change-password writes a new hash only when the supplied current
\* password matches the stored hash: a stored hash changes only in a step
\* that answers 200 to an admitted request whose current password matches
\* the hash stored before the step, and an admitted request whose current
\* password matches no stored hash fails and leaves the stores as they were.
C13_HashChangesOnlyWithCurrentPassword ==
    [][ /\ (PasswordHashes(db') # PasswordHashes(db))
           => /\ req'.route = "change-password" /\ guard'.next /\ resp'.status = 200
              /\ \E r \in AccountRows(db, guard'.user[1]) :
                    r.password_hash = BcryptHash(req'.body.currentPassword)
        /\ ( /\ phase = "idle" /\ phase' = "responded"
             /\ req'.route = "change-password" /\ guard'.next
             /\ \A r \in AccountRows(db, guard'.user[1]) :
                   r.password_hash # BcryptHash(req'.body.currentPassword) )
           => (resp'.status # 200 /\ db' = db) ]_vars

\* An admitted change-password request with a current password that is not
\* the account's was answered 401 and the account's hash is still the other
\* password's.
C13_Witness ==
    /\ ChangePasswordAnswered /\ guard.next
    /\ req.body.currentPassword = "pw2" /\ req.body.newPassword = "pw2"
    /\ resp.status = 401
    /\ AccountRows(db, guard.user[1]) # {}
    /\ \A r \in AccountRows(db, guard.user[1]) : r.password_hash = BcryptHash("pw1")

UpdateAnswered == phase = "responded" /\ req.route = "update"

\* C14 as stated: an update whose body names id, email, candidate_id or
\* created_at does not succeed.
C14_ImmutableFieldsAreRejected ==
    (UpdateAnswered /\ DOMAIN req.body \cap ImmutableFields # {}) => resp.status # 200

\* The immutable columns of a profile row have the values the row was
\* created with.
KeepsIdentity(r) ==
    \E o \in {ProfileRow("sewing"), OtherProfileRow} : \A f \in ImmutableFields : r[f] = o[f]

\* C14, amended: an update never changes id, email, candidate_id or
\* created_at of a stored profile; a body naming them has them removed, and
\* the remaining columns are written when the request succeeds.
C14_ImmutableFieldsAreNeverWritten ==
    /\ \A t \in Tenants : \A r \in profiles[t] : KeepsIdentity(r)
    /\ (UpdateAnswered /\ resp.status = 200)
       => /\ KeepsIdentity(resp.body[1])
          /\ resp.body[1] \in profiles[StoreOfAccount(guard.user[1].accountType)]
          /\ ("phone" \in DOMAIN req.body => resp.body[1].phone = NewValue("phone"))

\* An update naming email and phone succeeded: the phone was written, the
\* email was not.
C14_Witness ==
    /\ UpdateAnswered /\ resp.status = 200
    /\ {"email", "phone"} \subseteq DOMAIN req.body
    /\ resp.body[1].phone = NewValue("phone")
    /\ resp.body[1].email = StoredEmail

\* The password was verified and the last-login update was issued and
\* failed: it returned an error or threw.
LastLoginUpdateFailed ==
    \E k \in DOMAIN ops : ops[k].op = "update" /\ ops[k].result \in {"error", "throw"}

\* C15: the last-login update is best-effort: when it returns an error or
\* throws after the password was verified, the login still succeeds with a
\* token and the identity.
C15_LastLoginUpdateIsBestEffort ==
    (LoginAnswered /\ LastLoginUpdateFailed) => Succeeded

\* Both stores were asked and neither lookup was answered: each returned an
\* infrastructure error or threw.
BothStoresUnreachable ==
    \A t \in Tenants :
        \E k \in DOMAIN ops :
            /\ ops[k].store = t /\ ops[k].op \in {"select", "signin"}
            /\ ops[k].result \in {"error", "throw"}

\* C16: when the credential lookup fails in both stores for infrastructure
\* reasons, the login's answer is not the 401 "Invalid email or password".
C16_UnreachableStoresAreNotInvalidCredentials ==
    (LoginAnswered /\ BothStoresUnreachable) => resp # InvalidCredentials

-----------------------------------------------------------------------------
(* Properties of the attribute lists *)

\* The list the delimited text stands for: its comma-separated elements,
\* trimmed, in their order, without the empty ones and without the sentinel;
\* repeated elements stay.
ExpectedList(text) ==
    SelectSeq(MapTrim(Split(text, <<",">>)),
              LAMBDA m : m # <<>> /\ m # <<NoneSelected>>)

\* The delimited columns of a row and the members built from them.
AttributeColumns == {"machines", "products"}

\* The member the response must carry for a column holding null or text.
ExpectedMember(field) ==
    IF Truthy(field) THEN JList(ExpectedList(field.v)) ELSE JList(<<>>)

TextOrMissing(field) == field.t # "list"

\* A listing was answered with the candidate objects of the rows of `tenant`.
ListedFor(tenant) ==
    /\ phase = "responded" /\ req.route = "list" /\ req.tenant = tenant
    /\ resp.status = 200

\* C18: every member built from a delimited column of a sewing record is the
\* sequence of the trimmed elements of the text, in their order, without
\* empty elements and without elements equal to 'None selected', duplicates
\* kept; a missing column gives the empty list.
C18_SewingListsAreNormalized ==
    ListedFor("sewing")
    => \A i \in DOMAIN tasks : \A f \in AttributeColumns :
          TextOrMissing(tasks[i].row[f])
          => resp.body[i][f] = ExpectedMember(tasks[i].row[f])

\* C19: the members built from the delimited columns of an upholstery record
\* follow the same rule: trimmed elements in order, no empty element, no
\* 'None selected', duplicates kept, the empty list for a missing column.
C19_UpholsteryListsAreNormalized ==
    ListedFor("upholstery")
    => \A i \in DOMAIN tasks : \A f \in AttributeColumns :
          TextOrMissing(tasks[i].row[f])
          => resp.body[i][f] = ExpectedMember(tasks[i].row[f])

\* The request read rows of which a delimited column holds a native array.
ReadNativeList ==
    /\ phase = "responded" /\ req.route \in {"list", "single"}
    /\ \E i \in DOMAIN tasks : \E f \in AttributeColumns : tasks[i].row[f].t = "list"

\* C20: a delimited column may hold a native array instead of text: the
\* request is answered with success and the member is the array, unchanged.
C20_NativeListsPassThrough ==
    ReadNativeList
    => /\ resp.status = 200
       /\ \A i \in DOMAIN tasks : \A f \in AttributeColumns :
             tasks[i].row[f].t = "list" => resp.body[i][f] = tasks[i].row[f]

-----------------------------------------------------------------------------
(* Properties of the login's key and of what a login writes *)

\* The one store that holds an account under the key of the request's email,
\* active and with the request's password; the other store holds nothing.
ValidUnderKeyIn(t) ==
    /\ db[OtherTenant(t)] = {}
    /\ \E r \in KeyRows(t, req.email) : r.is_active /\ BcryptCompare(req.password, r.password_hash)

\* C24: the email is a case-insensitive key: with the correct password of a
\* stored active credential, the login succeeds and reports the stored
\* identity whatever the letter case of the email sent.
C24_EmailKeyIgnoresLetterCase ==
    \A t \in Tenants :
        ( /\ LoginAnswered /\ StoresAnswered /\ lineage \in {"jwt", "complete"}
          /\ ValidUnderKeyIn(t) )
        => /\ Succeeded
           /\ \E r \in db[t] : /\ resp.user[1].email = r.email
                               /\ resp.user[1].unifiedId = r.unified_id

\* The step is a login request being answered.
LoginStep == phase = "idle" /\ phase' = "responded" /\ req'.route = "login"

\* C28: a login answered 400 or 401 leaves both stores as they were (no
\* last_login, login_attempts or password_hash is written) and issues no
\* token.
C28_FailedLoginWritesNothing ==
    [][ (LoginStep /\ resp'.status \in {400, 401})
        => (db' = db /\ resp'.token = NoToken /\ wallet' = wallet) ]_vars

\* A login with a wrong password on an existing active account was answered
\* 401 after its store was asked.
C28_Witness ==
    /\ LoginAnswered /\ resp.status = 401 /\ ops # <<>>
    /\ \E t \in Tenants : WrongPasswordIn(t, req.email, req.password)

\* A row without the columns a login may write.
Frozen(r) == [r EXCEPT !.last_login = OldTime, !.login_attempts = 0]

\* The store whose lookup matched: the last one the request looked into.
MatchedStore(calls) ==
    LET sel == { k \in DOMAIN calls : calls[k].op = "select" }
    IN  calls[CHOOSE k \in sel : \A j \in sel : j <= k].store

\* C30: a successful login writes only to the store that matched: the other
\* store is unchanged, and in the matching store only last_login and
\* login_attempts of the authenticated email change; no password hash
\* changes.
C30_SuccessfulLoginWritesOnlyItsOwnRow ==
    [][ (LoginStep /\ resp'.status = 200)
        => \A t \in Tenants :
              /\ { Frozen(r) : r \in db'[t] } = { Frozen(r) : r \in db[t] }
              /\ \A r \in db'[t] \ db[t] :
                    /\ r.email = resp'.user[1].email
                    /\ t = MatchedStore(ops') ]_vars

\* A login succeeded in a store that also holds another account, and the
\* row of the authenticated email carries the new last_login.
C30_Witness ==
    /\ LoginAnswered /\ Succeeded
    /\ \E t \in Tenants :
          /\ OtherRow \in db[t]
          /\ \E r \in db[t] : r.email = resp.user[1].email /\ r.last_login = NowTime

-----------------------------------------------------------------------------
(* Properties of the tenant tag and of what a profile update writes *)

\* The presented token is a session the upholstery provider issued and that
\* has not run out, and every provider that was asked answered.
UpholsterySessionPresented ==
    /\ ProtectedAnswered /\ lineage = "auth" /\ Presented # <<>>
    /\ Presented[1].scheme = "supabase" /\ Presented[1].issuer = "upholstery"
    /\ now < Presented[1].exp
    /\ \A k \in DOMAIN ops : ops[k].result \in {"ok", "error"}
    /\ \A k \in DOMAIN ops : ops[k].store = "upholstery" => ops[k].result = "ok"

\* C26: verifySupabaseToken tries both projects: a token the upholstery
\* provider recognises is admitted even when the sewing provider answers it
\* with an error.
C26_UpholsterySessionIsAdmitted ==
    UpholsterySessionPresented => (guard.next /\ guard.user # <<>>)

\* The store whose lookup authenticated the identity the middleware
\* attached: the "complete" lineage tags the token with it, the "jwt"
\* lineage puts that store's candidate id in the token.
AuthenticatingStore(user) ==
    IF lineage = "complete" THEN user.accountType
    ELSE IF user.id = "SC1" THEN "sewing" ELSE "upholstery"

\* The handler of a protected route ran for the token of the last login.
HandlerRanForIssuedToken ==
    /\ ProtectedAnswered /\ lineage \in {"jwt", "complete"}
    /\ guard.next /\ wallet # NoToken /\ Presented = wallet

\* C27: every protected operation with a token addresses the store that
\* authenticated the user at login, so a profile fetch with the token of the
\* login finds the user's record instead of answering 404.
C27_TokenAddressesTheAuthenticatingStore ==
    HandlerRanForIssuedToken
    => LET home == AuthenticatingStore(guard.user[1])
       IN  /\ \A k \in DOMAIN ops : ops[k].store = home
           /\ ( /\ req.route = "profile" /\ StoresAnswered
                /\ (lineage = "complete" => \E r \in profiles[home] : r.email = guard.user[1].email) )
              => resp.status = 200

\* The step is a profile update being answered.
UpdateStep == phase = "idle" /\ phase' = "responded" /\ req'.route = "update"

\* The immutable columns of a row.
IdentityOf(r) == [f \in ImmutableFields |-> r[f]]

\* C29: a profile update, whatever its body, leaves id, email, candidate_id
\* and created_at of every stored profile as they were, and writes nothing
\* but the row of the acting identity's email in the identity's own store;
\* the credential stores are not written.
C29_UpdateWritesOnlyTheOwnRow ==
    [][ UpdateStep
        => /\ db' = db
           /\ \A t \in Tenants :
                 /\ { IdentityOf(r) : r \in profiles'[t] } = { IdentityOf(r) : r \in profiles[t] }
                 /\ Cardinality(profiles'[t]) = Cardinality(profiles[t])
                 /\ \A r \in profiles'[t] \ profiles[t] :
                       /\ guard'.next
                       /\ r.email = guard'.user[1].email
                       /\ t = guard'.user[1].accountType ]_vars

\* An update naming every immutable column succeeded in a store that also
\* holds another candidate's row, which is as it was.
C29_Witness ==
    /\ UpdateAnswered /\ resp.status = 200
    /\ ImmutableFields \subseteq DOMAIN req.body
    /\ OtherProfileRow \in profiles[guard.user[1].accountType]
    /\ resp.body[1].updated_at = NowTime

-----------------------------------------------------------------------------
(* Properties of the candidate object and of the single-candidate fetch *)

Literal(text) == JStr(<<text>>)

\* The scalar members the object of a tenant has.
ScalarNames(tenant) ==
    {"role", "availability", "workType"}
        \cup (IF tenant = "upholstery" THEN {"sewingMachineExperience"} ELSE {"desiredSalary"})

\* The column a scalar member is read from, and the default the member takes
\* when the column is missing.
ColumnOf(member) ==
    CASE member = "role" -> "job_title"
      [] member = "availability" -> "status"
      [] member = "workType" -> "work_type"
      [] member = "desiredSalary" -> "desired_salary"
      [] member = "sewingMachineExperience" -> "sewing_machine_experience"

DefaultOf(member) ==
    CASE member = "availability" -> Literal("Unknown")
      [] member = "desiredSalary" -> Literal("Competitive")
      [] member = "sewingMachineExperience" -> Literal("None")
      [] OTHER -> Literal("Not specified")

\* A listing or a single-candidate request was answered with candidate
\* objects built by the map over the rows.
ObjectsReturned ==
    /\ phase = "responded" /\ req.route \in {"list", "single"} /\ resp.status = 200
    /\ Len(resp.body) = Len(tasks)
    /\ ~(lineage \in PlainLineages /\ req.route = "single")

\* C21: for both tenants, a scalar member whose column is missing takes its
\* default (availability "Unknown", desired salary "Competitive",
\* sewing-machine experience "None", any other "Not specified"), and no
\* scalar member is left null or undefined.
C21_MissingScalarsTakeTheirDefault ==
    ObjectsReturned
    => \A i \in DOMAIN tasks : \A m \in ScalarNames(req.tenant) :
          /\ resp.body[i][m].t = "string"
          /\ ~Truthy(tasks[i].row[ColumnOf(m)]) => resp.body[i][m] = DefaultOf(m)

\* A single-candidate request whose public query found no row.
UnknownIdentifier ==
    /\ phase = "responded" /\ req.route = "single"
    /\ ops # <<>> /\ ops[1].op = "select_public" /\ ops[1].result = "error"

ContentOf(o) ==
    [ role |-> o.role, availability |-> o.availability, workType |-> o.workType,
      desiredSalary |-> o.desiredSalary, sewingMachineExperience |-> o.sewingMachineExperience,
      machines |-> o.machines, products |-> o.products ]

\* The columns of a row without its keys.
ColumnsOf(c) == [f \in DOMAIN c \ {"id", "candidate_id"} |-> c[f]]

-----------------------------------------------------------------------------
(* Properties of concurrent password changes *)

\* Request i's update is applied in this step.
WritesNewHash(i) ==
    /\ Len(inflight') = Len(inflight)
    /\ inflight[i].pc = "update"
    /\ inflight'[i].status = 200

\* The current password request i supplied matches the hash its account's
\* row holds now.
MatchesStoredHash(i) ==
    LET q == inflight[i]
    IN  \E r \in db[StoreOfAccount(q.user.accountType)] :
           /\ r.email = q.user.email
           /\ BcryptCompare(q.currentPassword, r.password_hash)

\* C23: under every interleaving of the in-flight password changes of one
\* email, a request writes its new hash only if the current password it
\* supplied matches the hash stored at the moment of the write.
C23_WriteOnlyAgainstTheStoredHash ==
    [][\A i \in 1..Len(inflight) : WritesNewHash(i) => MatchesStoredHash(i)]_vars

=============================================================================
